---- MODULE Spec2Model ----
(***************************************************************************)
(* Model of the SPI-NOR transaction layer of drivers/mtd/devices/m25p80.c: *)
(* m25p80_read_reg, m25p80_write_reg, m25p80_write, m25p80_read and        *)
(* m25p80_erase, with the helpers m25p80_proto2nbits, m25p_addr2cmd and    *)
(* m25p_cmdsz.  One action per operation; the SPI core (spi_sync,          *)
(* spi_sync_transfer, spi_write) is the environment and its outcome is an  *)
(* input of the action.                                                    *)
(*                                                                         *)
(* 32-bit quantities are kept as two 16-bit halves [hi, lo] because the    *)
(* model checker's integers are 32-bit signed.                             *)
(***************************************************************************)
EXTENDS Integers, Sequences, FiniteSets, TLC

VARIABLES
    command,    \* flash->command[] followed by the memory that lies behind it
    op,         \* the last call: operation name and its arguments / nor fields
    xfers,      \* the spi_transfer array handed to the SPI core by the last call
    wire,       \* per transfer: the bytes taken from flash->command at submission
    spi,        \* what the SPI core did in the last call: calls, status, actual_length
    ret,        \* return value of the last call
    retlen,     \* the caller's *retlen
    val,        \* the caller's val buffer of m25p80_read_reg
    oob,        \* the last call stored past command[MAX_CMD_SIZE - 1]
    hist,       \* history of *retlen: its value before the run of writes,
                \* the number of writes in the run, the sum of their deltas
    BITS_PER_LONG   \* width of size_t in this build

vars == <<command, op, xfers, wire, spi, ret, retlen, val, oob, hist,
          BITS_PER_LONG>>

----------------------------------------------------------------------------
(* Program constants *)

MAX_CMD_SIZE == 16
EINVAL == 22
EIO == 5
ETIMEDOUT == 110
SPINOR_OP_AAI_WP == 173

(* Bounds of the model *)

MaxDummy == 10          \* largest nor->read_dummy tried
MaxRegLen == 17         \* largest len tried by the register operations
MaxWrites == 2          \* longest run of m25p80_write calls on one *retlen

----------------------------------------------------------------------------
(* Machine integers *)

Half == 65536

\* an unsigned int as two 16-bit halves
U32(h, l) == [hi |-> h, lo |-> l]

\* conversion of a mathematical integer in (-2^31, 2^31) to unsigned int
ToU32(n) ==
    IF n >= 0
    THEN U32(n \div Half, n % Half)
    ELSE LET m == 2147483647 + (n + 1)
         IN  U32(32768 + (m \div Half), m % Half)

\* (u8)(a >> k) for 0 <= k < 32
ShrU8(a, k) ==
    IF k < 16
    THEN ((a.lo \div (2^k)) + (a.hi % (2^k)) * (2^(16 - k))) % 256
    ELSE (a.hi \div (2^(k - 16))) % 256

\* loff_t to unsigned int: the bits above 31 are dropped
LoffToUint(off) == U32(off.hi, off.lo)

----------------------------------------------------------------------------
(* Input domains *)

\* enum spi_nor_protocol: a protocol is its three lane widths
Proto(c, a, d) == [code |-> c, addr |-> a, data |-> d]

\* one protocol for each way the three lane widths can agree or differ
Protocols == { Proto(1, 1, 1), Proto(1, 1, 4), Proto(1, 4, 4),
               Proto(1, 2, 1), Proto(1, 2, 4) }
RegProtocols == { Proto(1, 1, 1), Proto(1, 1, 4), Proto(4, 4, 4) }
FewProtocols == { Proto(1, 1, 1), Proto(1, 2, 4) }

\* nor->addr_width
AddrWidths == { 3, 4 }

\* loff_t offsets: bits 32 and up, bits 31..16, bits 15..0
Loff(t, h, l) == [top |-> t, hi |-> h, lo |-> l]
Offsets == { Loff(0, 0, 4096), Loff(1, 33026, 165) }
OneOffset == { Loff(1, 33026, 165) }
ManyOffsets == { Loff(t, h, l) : t \in { 0, 1 },
                                 h \in { 0, 1, 258, 33026, 65535 },
                                 l \in { 0, 165, 4096, 65280, 65535 } }

\* the errors the SPI core reports
SpiErrors == { -EIO, -ETIMEDOUT }
OneError == { -EIO }

RegLens == { 0, 1 } \cup ((MAX_CMD_SIZE - 1)..MaxRegLen)
FewRegLens == { 1, MAX_CMD_SIZE }
BulkLens == { 1, 256 }
OneLen == { 256 }
DummyCycles == 0..MaxDummy
\* dummy cycle counts of a u8 read_dummy that make a long header
LongDummies == { 24, 32 }

FewDummies == { 0, 3, 8 }
NoErrors == { }

----------------------------------------------------------------------------
(* struct spi_transfer *)

NULL == [base |-> "NULL", off |-> 0]
Cmd(o) == [base |-> "command", off |-> o]
Buf == [base |-> "buf", off |-> 0]

\* memset(xfers, 0, sizeof(xfers)): one zeroed struct spi_transfer
ZeroXfer == [len |-> 0, tx_buf |-> NULL, rx_buf |-> NULL,
             tx_nbits |-> 0, rx_nbits |-> 0]

\* the transfers [1..n] of the array, as spi_sync_transfer and
\* spi_message_init_with_transfers take them
FirstXfers(xs, n) == SubSeq(xs, 1, n)

RECURSIVE SumLen(_)
SumLen(xs) == IF xs = << >> THEN 0 ELSE Head(xs).len + SumLen(Tail(xs))

\* the bytes a transfer sends out of the command memory
TxBytes(mem, x) ==
    IF x.tx_buf.base = "command"
    THEN [i \in 1..x.len |-> mem[x.tx_buf.off + i - 1]]
    ELSE << >>

Wire(mem, xs) == [k \in 1..Len(xs) |-> TxBytes(mem, xs[k])]

----------------------------------------------------------------------------
(* Command memory *)

\* the model keeps, behind command[], as many bytes as the longest header
\* of a read has
MemSize == MAX_CMD_SIZE + 1 + 4 + (MaxDummy * 4) \div 8
Mem == 0..(MemSize - 1)

\* memset(mem + at, c, n)
Memset(mem, at, c, n) ==
    [i \in Mem |-> IF i >= at /\ i < at + n THEN c ELSE mem[i]]

\* memcpy(mem + at, src, n), src a sequence of at least n bytes
Memcpy(mem, at, src, n) ==
    [i \in Mem |-> IF i >= at /\ i < at + n THEN src[i - at + 1] ELSE mem[i]]

\* a store of n bytes at index at leaves command[]
Overruns(at, n) == n > 0 /\ at + n > MAX_CMD_SIZE

----------------------------------------------------------------------------
(* Helpers of the driver *)

m25p80_proto2nbits(proto) ==
    [code_nbits |-> proto.code, addr_nbits |-> proto.addr,
     data_nbits |-> proto.data]

\* a shift count outside 0..31 is undefined: ub is the byte the build yields
ShiftByte(addr, k, ub) == IF k >= 0 /\ k < 32 THEN ShrU8(addr, k) ELSE ub

\* the bytes a build can produce for the undefined shift of addr: the count
\* taken modulo 32, or every bit shifted out
UndefShift(addr) == { 0, ShrU8(addr, 24) }

\* the stores into cmd[1..4] in little-endian order
addr2cmd_le(addr_width, addr, cmd, ub) ==
    [cmd EXCEPT ![1] = ShiftByte(addr, 0, ub),
                ![2] = ShiftByte(addr, 8, ub),
                ![3] = ShiftByte(addr, 16, ub),
                ![4] = ShiftByte(addr, addr_width * 8 - 8, ub)]

m25p_addr2cmd(addr_width, addr, cmd, ub) ==
    [cmd EXCEPT ![1] = ShiftByte(addr, addr_width * 8 - 8, ub),
                ![2] = ShiftByte(addr, addr_width * 8 - 16, ub),
                ![3] = ShiftByte(addr, addr_width * 8 - 24, ub),
                ![4] = ShiftByte(addr, addr_width * 8 - 32, ub)]

\* the bytes m25p_addr2cmd can store for its undefined shift, when called
UbChoices(addr_width, called, addr) ==
    IF called /\ addr_width * 8 - 32 < 0 THEN UndefShift(addr) ELSE { 0 }

cmdsz_no_opcode(addr_width) == addr_width

m25p_cmdsz(addr_width) == 1 + addr_width

----------------------------------------------------------------------------
(* The SPI core: spi_sync_transfer, spi_sync, spi_write *)

\* the lengths after which a failing message can stop: before its first
\* transfer, or before its last
PrefixSums(xs) == { 0, SumLen(SubSeq(xs, 1, Len(xs) - 1)) }

\* a driver that submits the message again when it failed
spi_sync_retry(xs, errs) ==
    { [calls |-> 1, status |-> 0, actual |-> SumLen(xs)] } \cup
    { [calls |-> 2, status |-> e, actual |-> a] :
          e \in errs, a \in PrefixSums(xs) }

\* one submission of the message xs and its outcomes: the status returned
\* and spi_message.actual_length
spi_sync(xs, errs) ==
    { [calls |-> 1, status |-> 0, actual |-> SumLen(xs)] } \cup
    { [calls |-> 1, status |-> e, actual |-> a] :
          e \in errs, a \in PrefixSums(xs) }

\* no message was submitted
NoSpi == [calls |-> 0, status |-> 0, actual |-> 0]

\* the bytes the flash answers with: fill, fill + 1, ...
RxFills == { 90 }
RxData(fill, n) == [i \in 1..n |-> (fill + i - 1) % 256]

----------------------------------------------------------------------------
(* Values of the caller *)

NoVal == [set |-> FALSE, bytes |-> << >>]
NoOp == [name |-> "none", proto |-> Proto(1, 1, 1),
         addr_width |-> 3, opcode |-> 0, off |-> Loff(0, 0, 0), len |-> 0,
         read_dummy |-> 0, buf |-> FALSE, sst_write_second |-> FALSE,
         seed |-> 0]

\* size_t as bits 32 and up, bits 31..16, bits 15..0
SizeT(t, h, l) == [top |-> t, hi |-> h, lo |-> l]

\* (size_t)u for an unsigned int u
UintToSizeT(u) == SizeT(0, u.hi, u.lo)

\* r + u in size_t, u an unsigned int
SizeTAdd(r, u, bits) ==
    LET l == r.lo + u.lo
        h == r.hi + u.hi + (l \div Half)
    IN  SizeT(IF bits = 64 THEN r.top + (h \div Half) ELSE 0,
              h % Half, l % Half)

NoHist == [init |-> SizeT(0, 0, 0), n |-> 0, sum |-> 0]

RegReadOpcodes == { 5 }
RegWriteOpcodes == { 6 }
PayloadSeeds == { 17 }
Payload(seed, n) == [i \in 1..n |-> (seed + i - 1) % 256]

----------------------------------------------------------------------------
(* m25p80_read_reg *)

read_reg_too_long_off_by_one(len) == len > MAX_CMD_SIZE

\* Check the total length of command op code and data.
read_reg_too_long(len) == len + 1 > MAX_CMD_SIZE

\* opcode and answer in one full-duplex transfer
read_reg_xfers_full_duplex(nbits, len) ==
    << [ZeroXfer EXCEPT !.len = 1 + len, !.tx_buf = Cmd(0),
                        !.rx_buf = Cmd(0),
                        !.tx_nbits = nbits.code_nbits,
                        !.rx_nbits = nbits.data_nbits],
       ZeroXfer >>

read_reg_xfers(nbits, len) ==
    << [ZeroXfer EXCEPT !.len = 1, !.tx_buf = Cmd(0),
                        !.tx_nbits = nbits.code_nbits],
       [ZeroXfer EXCEPT !.len = len, !.rx_buf = Cmd(1),
                        !.rx_nbits = nbits.data_nbits] >>

m25p80_read_reg(proto, code, len, errs) ==
    /\ op' = [NoOp EXCEPT !.name = "read_reg", !.proto = proto,
                          !.opcode = code, !.len = len]
    /\ oob' = FALSE
    /\ UNCHANGED <<retlen, hist, BITS_PER_LONG>>
    /\ IF read_reg_too_long(len)
       THEN /\ ret' = -EINVAL
            /\ xfers' = << >>
            /\ wire' = << >>
            /\ spi' = NoSpi
            /\ val' = NoVal
            /\ UNCHANGED command
       ELSE LET nbits == m25p80_proto2nbits(proto)
                cmd0 == [command EXCEPT ![0] = code]
                xs == FirstXfers(read_reg_xfers(nbits, len), 2)
            IN  /\ xfers' = xs
                /\ wire' = Wire(cmd0, xs)
                /\ \E out \in spi_sync(xs, errs), fill \in RxFills,
                      touched \in BOOLEAN :
                     \* a failing message may or may not have stored into
                     \* rx_buf; a message that succeeded has
                     /\ out.status = 0 => touched
                     /\ spi' = out
                     /\ ret' = out.status
                     /\ command' = IF touched
                                   THEN Memcpy(cmd0, 1, RxData(fill, len), len)
                                   ELSE cmd0
                     /\ val' = IF out.status < 0
                               THEN NoVal
                               ELSE [set |-> TRUE,
                                     bytes |-> [i \in 1..len |-> command'[i]]]

ReadRegOn(protos, lens, errs) ==
    \E proto \in protos, code \in RegReadOpcodes, len \in lens :
        m25p80_read_reg(proto, code, len, errs)

----------------------------------------------------------------------------
(* m25p80_write_reg *)

\* Check the total length of command op code and data.
write_reg_too_long(buf, len) == buf /\ (len + 1 > MAX_CMD_SIZE)

\* the payload always in a transfer of its own
write_reg_xfers_never_merged(nbits, buf, len) ==
    LET x0 == [ZeroXfer EXCEPT !.len = 1, !.tx_buf = Cmd(0),
                               !.tx_nbits = nbits.code_nbits]
    IN  IF buf
        THEN [num_xfers |-> 2,
              xfers |-> << x0,
                           [ZeroXfer EXCEPT !.len = len,
                                            !.tx_buf = Cmd(1),
                                            !.tx_nbits = nbits.data_nbits] >>]
        ELSE [num_xfers |-> 1, xfers |-> << x0, ZeroXfer >>]

write_reg_xfers(nbits, buf, len) ==
    LET x0 == [ZeroXfer EXCEPT !.len = 1, !.tx_buf = Cmd(0),
                               !.tx_nbits = nbits.code_nbits]
    IN  IF buf
        THEN IF nbits.data_nbits = nbits.code_nbits
             THEN [num_xfers |-> 1,
                   xfers |-> << [x0 EXCEPT !.len = 1 + len], ZeroXfer >>]
             ELSE [num_xfers |-> 2,
                   xfers |-> << x0,
                                [ZeroXfer EXCEPT !.len = len,
                                                 !.tx_buf = Cmd(1),
                                                 !.tx_nbits = nbits.data_nbits] >>]
        ELSE [num_xfers |-> 1, xfers |-> << x0, ZeroXfer >>]

\* buf: the caller passed a buffer (holding Payload(seed, len)), not NULL
m25p80_write_reg(proto, opcode, buf, seed, len, errs) ==
    /\ op' = [NoOp EXCEPT !.name = "write_reg", !.proto = proto,
                          !.opcode = opcode, !.len = len, !.buf = buf,
                          !.seed = seed]
    /\ val' = NoVal
    /\ oob' = FALSE
    /\ UNCHANGED <<retlen, hist, BITS_PER_LONG>>
    /\ IF write_reg_too_long(buf, len)
       THEN /\ ret' = -EINVAL
            /\ xfers' = << >>
            /\ wire' = << >>
            /\ spi' = NoSpi
            /\ UNCHANGED command
       ELSE LET nbits == m25p80_proto2nbits(proto)
                cmd0 == [command EXCEPT ![0] = opcode]
                cmd1 == IF buf THEN Memcpy(cmd0, 1, Payload(seed, len), len)
                        ELSE cmd0
                a == write_reg_xfers(nbits, buf, len)
                xs == FirstXfers(a.xfers, a.num_xfers)
            IN  /\ command' = cmd1
                /\ xfers' = xs
                /\ wire' = Wire(cmd1, xs)
                /\ \E out \in spi_sync(xs, errs) :
                     /\ spi' = out
                     /\ ret' = out.status

WriteRegOn(protos, lens, errs) ==
    \E proto \in protos, opcode \in RegWriteOpcodes, buf \in BOOLEAN,
       len \in lens :
        \E seed \in (IF buf THEN PayloadSeeds ELSE { 0 }) :
            m25p80_write_reg(proto, opcode, buf, seed, len, errs)

----------------------------------------------------------------------------
(* m25p80_write *)

ProgramOpcodes == { 2, SPINOR_OP_AAI_WP }

\* the values *retlen can hold when the caller starts a new run of writes
FreshRetlens == { SizeT(0, 0, 0), SizeT(0, 0, 65535) }

\* the second-half flag alone drops the address
write_cmd_sz_any_opcode(addr_width, program_opcode, sst_write_second) ==
    IF sst_write_second THEN 1 ELSE m25p_cmdsz(addr_width)

write_cmd_sz(addr_width, program_opcode, sst_write_second) ==
    IF program_opcode = SPINOR_OP_AAI_WP /\ sst_write_second
    THEN 1
    ELSE m25p_cmdsz(addr_width)

\* the address always in the transfer of the opcode
write_xfers_always_merged(nbits, addr_width, cmd_sz, len) ==
    LET x0 == [ZeroXfer EXCEPT !.len = 1, !.tx_buf = Cmd(0),
                               !.tx_nbits = nbits.code_nbits]
        data == [ZeroXfer EXCEPT !.len = len, !.tx_buf = Buf,
                                 !.tx_nbits = nbits.data_nbits]
    IN  IF cmd_sz > 1
        THEN [num_xfers |-> 2,
              xfers |-> << [x0 EXCEPT !.len = 1 + addr_width], data,
                           ZeroXfer >>]
        ELSE [num_xfers |-> 2, xfers |-> << x0, data, ZeroXfer >>]

write_xfers(nbits, addr_width, cmd_sz, len) ==
    LET x0 == [ZeroXfer EXCEPT !.len = 1, !.tx_buf = Cmd(0),
                               !.tx_nbits = nbits.code_nbits]
        data == [ZeroXfer EXCEPT !.len = len, !.tx_buf = Buf,
                                 !.tx_nbits = nbits.data_nbits]
    IN  IF cmd_sz > 1
        THEN IF nbits.addr_nbits = nbits.code_nbits
             THEN [num_xfers |-> 2,
                   xfers |-> << [x0 EXCEPT !.len = 1 + addr_width], data,
                                ZeroXfer >>]
             ELSE [num_xfers |-> 3,
                   xfers |-> << x0,
                                [ZeroXfer EXCEPT !.len = addr_width,
                                                 !.tx_buf = Cmd(1),
                                                 !.tx_nbits = nbits.addr_nbits],
                                data >>]
        ELSE [num_xfers |-> 2, xfers |-> << x0, data, ZeroXfer >>]

\* *retlen += m.actual_length - cmd_sz
write_retlen(r0, actual, cmd_sz, bits) ==
    SizeTAdd(r0, ToU32(actual - cmd_sz), bits)

\* r0 is the value of *retlen at the call, h0 its history
m25p80_write(proto, addr_width, program_opcode, sst_write_second, to, len, r0, h0, ub, errs) ==
    LET cmd_sz == write_cmd_sz(addr_width, program_opcode, sst_write_second)
        nbits == m25p80_proto2nbits(proto)
        cmd0 == [command EXCEPT ![0] = program_opcode]
        cmd1 == IF cmd_sz > 1
                THEN m25p_addr2cmd(addr_width, LoffToUint(to), cmd0, ub)
                ELSE cmd0
        a == write_xfers(nbits, addr_width, cmd_sz, len)
        xs == FirstXfers(a.xfers, a.num_xfers)
    IN  /\ op' = [NoOp EXCEPT !.name = "write", !.proto = proto,
                              !.addr_width = addr_width,
                              !.opcode = program_opcode,
                              !.sst_write_second = sst_write_second,
                              !.off = to, !.len = len]
        /\ command' = cmd1
        /\ xfers' = xs
        /\ wire' = Wire(cmd1, xs)
        /\ val' = NoVal
        /\ oob' = FALSE
        /\ ret' = 0
        /\ UNCHANGED BITS_PER_LONG
        /\ \E out \in spi_sync(xs, errs) :
             /\ spi' = out
             /\ retlen' = write_retlen(r0, out.actual, cmd_sz, BITS_PER_LONG)
             /\ hist' = [h0 EXCEPT !.n = @ + 1,
                                   !.sum = @ + (out.actual - cmd_sz)]

\* the caller passes the counter of the current run of writes (cont), or a
\* new one holding a value of news
WriteOn(protos, offs, lens, news, cont, errs) ==
    \E proto \in protos, addr_width \in AddrWidths,
       program_opcode \in ProgramOpcodes, sst_write_second \in BOOLEAN,
       to \in offs, len \in lens, fresh \in BOOLEAN :
        /\ ~fresh => cont /\ hist.n < MaxWrites
        /\ \E r0 \in (IF fresh THEN news ELSE { retlen }),
              ub \in UbChoices(addr_width,
                               write_cmd_sz(addr_width, program_opcode,
                                            sst_write_second) > 1,
                               LoffToUint(to)) :
             m25p80_write(proto, addr_width, program_opcode,
                          sst_write_second, to, len, r0,
                          IF fresh THEN [NoHist EXCEPT !.init = r0] ELSE hist,
                          ub, errs)

----------------------------------------------------------------------------
(* m25p80_read *)

ReadOpcodes == { 11 }

dummy_bytes_rounded_up(read_dummy, addr_nbits) ==
    (read_dummy * addr_nbits + 7) \div 8

\* convert the dummy cycles to the number of bytes; the product of a
\* dummy-cycle count and a lane width of the model stays far below 2^32
read_dummy_bytes(read_dummy, addr_nbits) ==
    (read_dummy * addr_nbits) \div 8

read_xfers_never_merged(nbits, addr_width, dummy, len) ==
    [num_xfers |-> 3,
     xfers |-> << [ZeroXfer EXCEPT !.len = 1, !.tx_buf = Cmd(0),
                                   !.tx_nbits = nbits.code_nbits],
                  [ZeroXfer EXCEPT !.len = addr_width + dummy,
                                   !.tx_buf = Cmd(1),
                                   !.tx_nbits = nbits.addr_nbits],
                  [ZeroXfer EXCEPT !.len = len, !.rx_buf = Buf,
                                   !.rx_nbits = nbits.data_nbits] >>]

read_xfers(nbits, addr_width, dummy, len) ==
    LET x0 == [ZeroXfer EXCEPT !.len = 1, !.tx_buf = Cmd(0),
                               !.tx_nbits = nbits.code_nbits]
        data == [ZeroXfer EXCEPT !.len = len, !.rx_buf = Buf,
                                 !.rx_nbits = nbits.data_nbits]
    IN  IF nbits.addr_nbits = nbits.code_nbits
        THEN [num_xfers |-> 2,
              xfers |-> << [x0 EXCEPT !.len = 1 + addr_width + dummy], data,
                           ZeroXfer >>]
        ELSE [num_xfers |-> 3,
              xfers |-> << x0,
                           [ZeroXfer EXCEPT !.len = addr_width + dummy,
                                            !.tx_buf = Cmd(1),
                                            !.tx_nbits = nbits.addr_nbits],
                           data >>]

\* command[] after the header of a read is staged
\* the dummy bytes left as the earlier calls wrote them
read_command_stale_dummy(cmd, read_opcode, addr_width, from, dummy, ub) ==
    LET cmd0 == [cmd EXCEPT ![0] = read_opcode]
    IN  m25p_addr2cmd(addr_width, LoffToUint(from), cmd0, ub)

read_command(cmd, read_opcode, addr_width, from, dummy, ub) ==
    LET cmd0 == [cmd EXCEPT ![0] = read_opcode]
        cmd1 == m25p_addr2cmd(addr_width, LoffToUint(from), cmd0, ub)
    IN  Memset(cmd1, 1 + addr_width, 0, dummy)

read_retlen_without_dummy(actual, addr_width, dummy) ==
    UintToSizeT(ToU32(actual - m25p_cmdsz(addr_width)))

\* *retlen = m.actual_length - m25p_cmdsz(nor) - dummy
read_retlen(actual, addr_width, dummy) ==
    UintToSizeT(ToU32(actual - m25p_cmdsz(addr_width) - dummy))

m25p80_read(proto, addr_width, read_opcode, read_dummy, from, len, ub, errs) ==
    LET nbits == m25p80_proto2nbits(proto)
        dummy == read_dummy_bytes(read_dummy, nbits.addr_nbits)
        cmd2 == read_command(command, read_opcode, addr_width, from, dummy, ub)
        a == read_xfers(nbits, addr_width, dummy, len)
        xs == FirstXfers(a.xfers, a.num_xfers)
    IN  /\ op' = [NoOp EXCEPT !.name = "read", !.proto = proto,
                              !.addr_width = addr_width,
                              !.opcode = read_opcode,
                              !.read_dummy = read_dummy,
                              !.off = from, !.len = len]
        /\ command' = cmd2
        /\ oob' = Overruns(1 + addr_width, dummy)
        /\ xfers' = xs
        /\ wire' = Wire(cmd2, xs)
        /\ val' = NoVal
        /\ ret' = 0
        /\ UNCHANGED BITS_PER_LONG
        /\ \E out \in spi_sync(xs, errs) :
             /\ spi' = out
             /\ retlen' = read_retlen(out.actual, addr_width, dummy)
             /\ hist' = [NoHist EXCEPT !.init = retlen']

ReadOn(protos, dummies, offs, lens, errs) ==
    \E proto \in protos, addr_width \in AddrWidths,
       read_opcode \in ReadOpcodes, read_dummy \in dummies,
       from \in offs, len \in lens :
        \E ub \in UbChoices(addr_width, TRUE, LoffToUint(from)) :
            m25p80_read(proto, addr_width, read_opcode, read_dummy, from,
                        len, ub, errs)

----------------------------------------------------------------------------
(* m25p80_erase *)

EraseOpcodes == { 216 }

\* spi_write(spi, buf, len): one transfer sending len bytes of buf
spi_write_xfers(buf, len) ==
    << [ZeroXfer EXCEPT !.len = len, !.tx_buf = buf] >>

m25p80_erase(addr_width, erase_opcode, offset, ub, errs) ==
    LET cmd0 == [command EXCEPT ![0] = erase_opcode]
        cmd1 == m25p_addr2cmd(addr_width, LoffToUint(offset), cmd0, ub)
        xs == spi_write_xfers(Cmd(0), m25p_cmdsz(addr_width))
    IN  /\ op' = [NoOp EXCEPT !.name = "erase", !.addr_width = addr_width,
                              !.opcode = erase_opcode, !.off = offset]
        /\ command' = cmd1
        /\ xfers' = xs
        /\ wire' = Wire(cmd1, xs)
        /\ val' = NoVal
        /\ oob' = FALSE
        /\ ret' = 0
        /\ \E out \in spi_sync(xs, errs) : spi' = out
        /\ UNCHANGED <<retlen, hist, BITS_PER_LONG>>

EraseOn(offs, errs) ==
    \E addr_width \in AddrWidths, erase_opcode \in EraseOpcodes,
       offset \in offs :
        \E ub \in UbChoices(addr_width, TRUE, LoffToUint(offset)) :
            m25p80_erase(addr_width, erase_opcode, offset, ub, errs)

----------------------------------------------------------------------------
(* The device after m25p_probe *)

\* a byte pattern of the memory behind the zeroed struct m25p
HeapFill == 238

Init ==
    /\ command = [i \in Mem |-> IF i < MAX_CMD_SIZE THEN 0 ELSE HeapFill]
    /\ op = NoOp
    /\ xfers = << >>
    /\ wire = << >>
    /\ spi = NoSpi
    /\ ret = 0
    /\ retlen = SizeT(0, 0, 0)
    /\ val = NoVal
    /\ oob = FALSE
    /\ hist = NoHist
    /\ BITS_PER_LONG \in { 32, 64 }

(* All five operations, on few inputs each; every write starts a new
   counter *)

ReadReg == ReadRegOn(FewProtocols, FewRegLens, SpiErrors)
WriteReg == WriteRegOn(FewProtocols, FewRegLens, SpiErrors)
Write == WriteOn(FewProtocols, OneOffset, OneLen, { SizeT(0, 0, 0) }, FALSE,
                 SpiErrors)
Read == ReadOn(FewProtocols, { 8 }, OneOffset, OneLen, SpiErrors)
Erase == EraseOn(OneOffset, SpiErrors)

Next == ReadReg \/ WriteReg \/ Write \/ Read \/ Erase

Spec == Init /\ [][Next]_vars

(* The register operations *)

RegReadReg == ReadRegOn(RegProtocols, RegLens, SpiErrors)
RegWriteReg == WriteRegOn(RegProtocols, RegLens, SpiErrors)

NextReg == RegReadReg \/ RegWriteReg

SpecReg == Init /\ [][NextReg]_vars

(* Bulk reads over every protocol class *)

BulkRead == ReadOn(Protocols, FewDummies, Offsets, BulkLens, OneError)

NextRead == BulkRead

SpecRead == Init /\ [][NextRead]_vars

(* Bulk reads over every dummy-cycle count, on a command buffer that
   register writes leave filled *)

DummyRead == ReadOn(Protocols, DummyCycles, OneOffset, OneLen, NoErrors)
DirtyReg == WriteRegOn({ Proto(1, 1, 1) }, { MAX_CMD_SIZE - 1 }, NoErrors)

NextDummy == DummyRead \/ DirtyReg

SpecDummy == Init /\ [][NextDummy]_vars

(* m25p_addr2cmd on its own: Init draws the opcode in cmd[0], the address
   and the address width, Addr2Cmd applies the encoder *)

AddrOpcodes == { 2, 216 }

InitAddr ==
    /\ \E opcode \in AddrOpcodes, addr_width \in AddrWidths,
          off \in ManyOffsets :
         /\ op = [NoOp EXCEPT !.name = "addr2cmd_args", !.opcode = opcode,
                              !.addr_width = addr_width, !.off = off]
         /\ command = [i \in Mem |-> IF i = 0 THEN opcode
                                     ELSE IF i < MAX_CMD_SIZE THEN 0
                                     ELSE HeapFill]
    /\ xfers = << >>
    /\ wire = << >>
    /\ spi = NoSpi
    /\ ret = 0
    /\ retlen = SizeT(0, 0, 0)
    /\ val = NoVal
    /\ oob = FALSE
    /\ hist = NoHist
    /\ BITS_PER_LONG \in { 32, 64 }

Addr2Cmd ==
    /\ op.name = "addr2cmd_args"
    /\ \E ub \in UbChoices(op.addr_width, TRUE, LoffToUint(op.off)) :
         command' = m25p_addr2cmd(op.addr_width, LoffToUint(op.off),
                                  command, ub)
    /\ op' = [op EXCEPT !.name = "addr2cmd"]
    /\ UNCHANGED <<xfers, wire, spi, ret, retlen, val, oob, hist,
                   BITS_PER_LONG>>

NextAddr == Addr2Cmd

SpecAddr == InitAddr /\ [][NextAddr]_vars

(* Erases over many offsets *)

ManyErase == EraseOn(ManyOffsets, SpiErrors)

NextErase == ManyErase

SpecErase == Init /\ [][NextErase]_vars

(* Runs of bulk writes on one *retlen *)

AccumWrite == WriteOn(FewProtocols, OneOffset, OneLen, FreshRetlens, TRUE,
                      OneError)

NextAccum == AccumWrite

SpecAccum == Init /\ [][NextAccum]_vars

(* Bulk writes over every protocol class *)

BulkWrite == WriteOn(Protocols, Offsets, BulkLens, { SizeT(0, 0, 0) }, FALSE,
                     NoErrors)

NextWrite == BulkWrite

SpecWrite == Init /\ [][NextWrite]_vars

(* Bulk reads with many dummy cycles *)

LongRead == ReadOn(Protocols, LongDummies, Offsets, BulkLens, OneError)

NextLong == LongRead

SpecLong == Init /\ [][NextLong]_vars

----------------------------------------------------------------------------
(* Properties *)

\* the value of the bytes cmd[1..w], most significant first, as unsigned int
BigEndian(cmd, w) ==
    U32(IF w = 4 THEN cmd[1] * 256 + cmd[2] ELSE cmd[1],
        cmd[w - 1] * 256 + cmd[w])

\* a mod 2^(8 * w) for an unsigned int a
ModWidth(a, w) ==
    U32(IF 8 * w >= 32 THEN a.hi ELSE a.hi % (2^(8 * w - 16)), a.lo)

\* the w bytes of a mod 2^(8 * w), most significant first
AddrBytes(a, w) ==
    IF w = 4
    THEN << a.hi \div 256, a.hi % 256, a.lo \div 256, a.lo % 256 >>
    ELSE << a.hi % 256, a.lo \div 256, a.lo % 256 >>

\* all the bytes the last call sent out of the command memory, in order
RECURSIVE Flatten(_)
Flatten(ss) == IF ss = << >> THEN << >> ELSE Head(ss) \o Flatten(Tail(ss))
Sent == Flatten(wire)

\* floor(dummy_cycles * address lane width / 8) of the last call
DummyBytes == (op.read_dummy * op.proto.addr) \div 8

\* a natural number below 2^31 as a size_t
Nat2SizeT(n) == SizeT(0, n \div Half, n % Half)

\* the last call was a register operation whose length does not fit
RegRejected(o) ==
    /\ o.name \in { "read_reg", "write_reg" }
    /\ o.name = "write_reg" => o.buf
    /\ o.len + 1 > MAX_CMD_SIZE

\* C1: for every address and width w in {3,4}, the w bytes m25p_addr2cmd
\* stores behind the opcode are, read big-endian, the address mod 2^(8w),
\* and the opcode in cmd[0] is left as it was.
C1_AddrBigEndian ==
    op.name = "addr2cmd" =>
        /\ BigEndian(command, op.addr_width)
               = ModWidth(LoffToUint(op.off), op.addr_width)
        /\ command[0] = op.opcode

C1_Witness ==
    /\ op.name = "addr2cmd"
    /\ op.addr_width = 3
    /\ op.off = Loff(1, 33026, 165)
    /\ command[1] = 2

\* C2: a register operation with a payload whose length + 1 exceeds 16
\* returns -EINVAL, submits nothing and leaves command[] as it was; with a
\* length up to 15 the call submits its message.
C2_RegLengthCheck ==
    [][ (op'.name \in { "read_reg", "write_reg" }
         /\ (op'.name = "write_reg" => op'.buf))
        => IF op'.len + 1 > 16
           THEN ret' = -EINVAL /\ spi'.calls = 0 /\ xfers' = << >>
                /\ command' = command
           ELSE spi'.calls = 1 /\ ret' = spi'.status /\ Len(xfers') >= 1 ]_vars

C2_Witness ==
    /\ op.name = "read_reg"
    /\ op.len = 16
    /\ ret = -EINVAL
    /\ spi.calls = 0
    /\ command[15] # 0

\* C3: a bulk read has 2 transfers when the address lane width equals the
\* opcode lane width (opcode + address + dummy, then data) and 3 otherwise
\* (opcode; address + dummy; data); the last transfer is the only receiving
\* one, has the requested length and the data lane width.
C3_ReadPhases ==
    op.name = "read" =>
        LET n == Len(xfers)
            hdr == op.addr_width + DummyBytes
        IN  /\ IF op.proto.addr = op.proto.code
               THEN n = 2 /\ xfers[1].len = 1 + hdr
               ELSE n = 3 /\ xfers[1].len = 1 /\ xfers[2].len = hdr
                    /\ xfers[2].tx_nbits = op.proto.addr
            /\ xfers[1].tx_nbits = op.proto.code
            /\ \A k \in 1..(n - 1) :
                   xfers[k].rx_buf = NULL /\ xfers[k].tx_buf # NULL
            /\ xfers[n].rx_buf # NULL
            /\ xfers[n].tx_buf = NULL
            /\ xfers[n].len = op.len
            /\ xfers[n].rx_nbits = op.proto.data

C3_Witness ==
    /\ op.name = "read"
    /\ op.proto.addr = op.proto.code
    /\ op.read_dummy = 8
    /\ Len(xfers) = 2
    /\ xfers[2].len = 256

\* C4: in every bulk read the header sent is the opcode, the address and
\* floor(dummy_cycles * address lane width / 8) dummy bytes, and each of
\* the dummy bytes is 0x00.
C4_DummyBytes ==
    op.name = "read" =>
        /\ Len(Sent) = 1 + op.addr_width + DummyBytes
        /\ \A i \in (1 + op.addr_width + 1)..Len(Sent) : Sent[i] = 0

C4_Witness ==
    /\ op.name = "read"
    /\ (op.read_dummy * op.proto.addr) % 8 # 0
    /\ DummyBytes >= 1
    /\ command[15] # 0

\* the scenario of C5: offset 0x001000, length 256, 3-byte addresses, 8 dummy
\* cycles, address lane width equal to the data lane width
C5_Scenario ==
    /\ op.name = "read"
    /\ op.off = Loff(0, 0, 4096)
    /\ op.len = 256
    /\ op.addr_width = 3
    /\ op.read_dummy = 8
    /\ op.proto.addr = op.proto.data

\* C5 as stated: the scenario assembles [merged phase of length 4][data
\* phase of length 256] and 260 bytes transferred give retlen 256.
C5_Original ==
    C5_Scenario =>
        /\ Len(xfers) = 2
        /\ xfers[1].len = 4
        /\ xfers[2].len = 256
        /\ spi.actual = 260 => retlen = Nat2SizeT(256)

\* C5 as amended: in the scenario the header has 4 + n bytes, n the address
\* lane width (8 dummy cycles are n dummy bytes): one phase of 4 + n bytes
\* when the opcode lane width is n too, else a 1-byte opcode phase and a
\* phase of 3 + n bytes; the data phase of length 256 follows, and
\* 260 + n bytes transferred give retlen 256.
C5_Amended ==
    C5_Scenario =>
        LET n == op.proto.addr
        IN  /\ IF op.proto.code = n
               THEN Len(xfers) = 2 /\ xfers[1].len = 4 + n
               ELSE Len(xfers) = 3 /\ xfers[1].len = 1
                    /\ xfers[2].len = 3 + n
            /\ xfers[Len(xfers)].len = 256
            /\ xfers[Len(xfers)].rx_buf # NULL
            /\ spi.actual = 260 + n => retlen = Nat2SizeT(256)

C5_Witness ==
    /\ C5_Scenario
    /\ op.proto.code = op.proto.addr
    /\ spi.status = 0
    /\ spi.actual = 261
    /\ xfers[1].len = 5

\* C6: erase submits exactly one transfer, a send of 1 + w bytes: the erase
\* opcode and the big-endian w-byte address; there is no data phase.
C6_EraseOnePhase ==
    op.name = "erase" =>
        /\ Len(xfers) = 1
        /\ xfers[1].len = 1 + op.addr_width
        /\ xfers[1].tx_buf # NULL
        /\ xfers[1].rx_buf = NULL
        /\ wire[1] = << op.opcode >>
                        \o AddrBytes(LoffToUint(op.off), op.addr_width)

C6_Witness ==
    /\ op.name = "erase"
    /\ op.addr_width = 4
    /\ op.off = Loff(0, 0, 65280)
    /\ xfers[1].len = 5

\* C7: a register write of length 0 submits a single 1-byte opcode transfer
\* and no payload transfer, for every register protocol, with the payload
\* buffer absent or present but empty.
C7_EmptyRegWrite ==
    (op.name = "write_reg" /\ op.len = 0) =>
        /\ Len(xfers) = 1
        /\ xfers[1].len = 1

\* C8: when the SPI core reports a failed transfer, the operation that
\* submitted the message returns that same error.
C8_ErrorPropagated ==
    (spi.calls >= 1 /\ spi.status < 0) => ret = spi.status

\* C9: a call submits its message at most once: exactly once when its
\* arguments are accepted, not at all when they are rejected, and not again
\* after the submission failed.
C9_SingleSubmission ==
    op.name # "none" =>
        /\ spi.calls = (IF RegRejected(op) THEN 0 ELSE 1)
        /\ spi.status < 0 => spi.calls = 1

C9_Witness ==
    /\ op.name = "read"
    /\ spi.status < 0
    /\ spi.calls = 1

\* C10: for every bulk read *retlen is actual_length - (1 + address width)
\* - dummy bytes, with the dummy bytes that sized the header; it is the
\* requested length when the whole message was transferred.
C10_ReadRetlen ==
    op.name = "read" =>
        LET n == spi.actual - (1 + op.addr_width) - DummyBytes
        IN  /\ n >= 0
            /\ retlen = Nat2SizeT(n)
            /\ spi.actual = SumLen(xfers) => retlen = Nat2SizeT(op.len)

\* the value of a size_t below 2^31
SizeT2Nat(r) == r.hi * Half + r.lo

\* C11: after a run of bulk writes on one *retlen, *retlen is its value
\* before the run plus the sum over the writes of actual_length minus the
\* header size (1 + address width, or 1 for the second half of a two-step
\* program); no write resets it.
C11_WriteAccumulates ==
    (op.name = "write" /\ hist.n >= 1) =>
        LET t == SizeT2Nat(hist.init) + hist.sum
        IN  /\ t >= 0
            /\ retlen = Nat2SizeT(t)

\* a transfer that sends and does not receive
IsSend(x) == x.tx_buf # NULL /\ x.rx_buf = NULL

\* a transfer that receives and does not send
IsReceive(x) == x.rx_buf # NULL /\ x.tx_buf = NULL

\* C12: a register write with a payload of n bytes, 1 <= n <= 15, is one
\* send transfer of 1 + n bytes (opcode, payload) at the opcode lane width
\* when the data lane width equals it, and otherwise a 1-byte opcode
\* transfer at the opcode width followed by an n-byte payload transfer at
\* the data width.
C12_RegWritePayload ==
    (op.name = "write_reg" /\ op.buf /\ op.len >= 1 /\ op.len <= 15) =>
        IF op.proto.data = op.proto.code
        THEN /\ Len(xfers) = 1
             /\ IsSend(xfers[1])
             /\ xfers[1].len = 1 + op.len
             /\ xfers[1].tx_nbits = op.proto.code
             /\ wire[1] = << op.opcode >> \o Payload(op.seed, op.len)
        ELSE /\ Len(xfers) = 2
             /\ IsSend(xfers[1])
             /\ xfers[1].len = 1
             /\ xfers[1].tx_nbits = op.proto.code
             /\ wire[1] = << op.opcode >>
             /\ IsSend(xfers[2])
             /\ xfers[2].len = op.len
             /\ xfers[2].tx_nbits = op.proto.data
             /\ wire[2] = Payload(op.seed, op.len)

C12_Witness ==
    /\ op.name = "write_reg"
    /\ op.buf
    /\ op.len = 15
    /\ op.proto.data = op.proto.code
    /\ Len(xfers) = 1
    /\ Len(wire[1]) = 16

\* C13: every accepted register read is two transfers whatever the lane
\* widths and the length: a 1-byte send of the opcode at the opcode lane
\* width, then a receive of the requested length at the data lane width; no
\* transfer both sends and receives, and val gets the received bytes, and
\* only when the SPI core reports success.
C13_RegReadTwoPhases ==
    (op.name = "read_reg" /\ ~RegRejected(op)) =>
        /\ Len(xfers) = 2
        /\ IsSend(xfers[1])
        /\ xfers[1].len = 1
        /\ xfers[1].tx_nbits = op.proto.code
        /\ wire[1] = << op.opcode >>
        /\ IsReceive(xfers[2])
        /\ xfers[2].len = op.len
        /\ xfers[2].rx_nbits = op.proto.data
        /\ val.set <=> spi.status = 0
        /\ val.set =>
               val.bytes = [i \in 1..op.len |->
                                command[xfers[2].rx_buf.off + i - 1]]

C13_Witness ==
    /\ op.name = "read_reg"
    /\ op.len = 15
    /\ op.proto.data # op.proto.code
    /\ spi.status = 0
    /\ val.set
    /\ Len(val.bytes) = 15

\* the last call was the second half of a two-step (AAI word) program
SecondHalf(o) == o.opcode = SPINOR_OP_AAI_WP /\ o.sst_write_second

\* C14: an ordinary bulk write (not a second half) sends the program opcode
\* and the big-endian address: in one transfer of 1 + address width bytes
\* when the address lane width equals the opcode lane width, otherwise in a
\* 1-byte opcode transfer and an address transfer at the address lane
\* width; the last transfer sends the whole caller buffer at the data lane
\* width, which makes 2 or 3 transfers.
C14_WriteHeader ==
    (op.name = "write" /\ ~SecondHalf(op)) =>
        LET n == Len(xfers)
        IN  /\ Sent = << op.opcode >>
                         \o AddrBytes(LoffToUint(op.off), op.addr_width)
            /\ IF op.proto.addr = op.proto.code
               THEN n = 2 /\ xfers[1].len = 1 + op.addr_width
               ELSE n = 3 /\ xfers[1].len = 1
                    /\ xfers[2].len = op.addr_width
                    /\ xfers[2].tx_nbits = op.proto.addr
                    /\ xfers[2].tx_buf = Cmd(1)
            /\ xfers[1].tx_nbits = op.proto.code
            /\ xfers[1].tx_buf = Cmd(0)
            /\ \A k \in 1..n : IsSend(xfers[k])
            /\ xfers[n].tx_buf = Buf
            /\ xfers[n].len = op.len
            /\ xfers[n].tx_nbits = op.proto.data

C14_Witness ==
    /\ op.name = "write"
    /\ ~SecondHalf(op)
    /\ op.sst_write_second
    /\ op.addr_width = 4
    /\ op.proto.addr # op.proto.code
    /\ Len(xfers) = 3
    /\ xfers[3].len = 256

\* C15: a bulk write leaves the address out in exactly one case, the
\* program opcode being the AAI word program opcode with the second-half
\* flag set: then it is a 1-byte opcode transfer followed by the data
\* transfer; in every other case, the flag set with another opcode
\* included, the address bytes are sent.
C15_AddressOmitted ==
    op.name = "write" =>
        IF SecondHalf(op)
        THEN /\ Sent = << op.opcode >>
             /\ Len(xfers) = 2
             /\ xfers[1].len = 1
             /\ xfers[2].tx_buf = Buf
             /\ xfers[2].len = op.len
        ELSE /\ Len(Sent) = 1 + op.addr_width
             /\ SubSeq(Sent, 2, 1 + op.addr_width)
                    = AddrBytes(LoffToUint(op.off), op.addr_width)

C15_Witness ==
    /\ op.name = "write"
    /\ SecondHalf(op)
    /\ op.proto.addr # op.proto.code
    /\ Len(xfers) = 2
    /\ Sent = << SPINOR_OP_AAI_WP >>

\* the lane width a transfer uses in its direction
PhaseWidth(x) == IF x.tx_buf # NULL THEN x.tx_nbits ELSE x.rx_nbits

SameDirection(x, y) == (x.tx_buf # NULL) = (y.tx_buf # NULL)

\* C16: in the transaction of any of the five operations, no two adjacent
\* transfers have both the same lane width and the same direction (a bulk
\* write header followed by its data at the same lane width included).
C16_AdjacentPhasesMerged ==
    (op.name # "none") =>
        \A k \in 1..(Len(xfers) - 1) :
            ~ (/\ SameDirection(xfers[k], xfers[k + 1])
               /\ PhaseWidth(xfers[k]) = PhaseWidth(xfers[k + 1]))

\* length, lane width and direction of every transfer of the last call
Shape ==
    [k \in 1..Len(xfers) |->
        [len |-> xfers[k].len, nbits |-> PhaseWidth(xfers[k]),
         send |-> xfers[k].tx_buf # NULL]]

Phase(len, nbits, send) == [len |-> len, nbits |-> nbits, send |-> send]

\* an opcode byte followed by rest bytes at the lane width nbits
HeaderShape(p, nbits, rest) ==
    IF rest = 0 THEN << Phase(1, p.code, TRUE) >>
    ELSE IF nbits = p.code THEN << Phase(1 + rest, p.code, TRUE) >>
    ELSE << Phase(1, p.code, TRUE), Phase(rest, nbits, TRUE) >>

\* the transfers of a call, from the parameters of the call alone
ShapeOf(o) ==
    CASE o.name = "read" ->
            HeaderShape(o.proto, o.proto.addr,
                        o.addr_width + (o.read_dummy * o.proto.addr) \div 8)
                \o << Phase(o.len, o.proto.data, FALSE) >>
      [] o.name = "write" ->
            HeaderShape(o.proto, o.proto.addr,
                        IF SecondHalf(o) THEN 0 ELSE o.addr_width)
                \o << Phase(o.len, o.proto.data, TRUE) >>
      [] o.name = "erase" -> << Phase(1 + o.addr_width, 0, TRUE) >>
      [] o.name = "write_reg" ->
            IF RegRejected(o) THEN << >>
            ELSE IF ~o.buf THEN << Phase(1, o.proto.code, TRUE) >>
            ELSE IF o.proto.data = o.proto.code
            THEN << Phase(1 + o.len, o.proto.code, TRUE) >>
            ELSE << Phase(1, o.proto.code, TRUE),
                    Phase(o.len, o.proto.data, TRUE) >>
      [] o.name = "read_reg" ->
            IF RegRejected(o) THEN << >>
            ELSE << Phase(1, o.proto.code, TRUE),
                    Phase(o.len, o.proto.data, FALSE) >>
      [] OTHER -> << >>

\* the bytes a call sends from the command memory, from the parameters of
\* the call alone
SentOf(o) ==
    LET addr == AddrBytes(LoffToUint(o.off), o.addr_width)
    IN  CASE o.name = "read" ->
                << o.opcode >> \o addr
                    \o [i \in 1..((o.read_dummy * o.proto.addr) \div 8) |-> 0]
          [] o.name = "write" ->
                << o.opcode >> \o (IF SecondHalf(o) THEN << >> ELSE addr)
          [] o.name = "erase" -> << o.opcode >> \o addr
          [] o.name = "write_reg" ->
                IF RegRejected(o) THEN << >>
                ELSE << o.opcode >>
                         \o (IF o.buf THEN Payload(o.seed, o.len) ELSE << >>)
          [] o.name = "read_reg" ->
                IF RegRejected(o) THEN << >> ELSE << o.opcode >>
          [] OTHER -> << >>

\* C17: whatever the earlier calls left in the command memory, the
\* transfers of a call (their number, lengths, lane widths and directions)
\* and every byte it sends from the command memory are a function of the
\* parameters of that call alone.
C17_OwnParametersOnly ==
    /\ Shape = ShapeOf(op)
    /\ Sent = SentOf(op)

C17_Witness ==
    /\ op.name = "write"
    /\ SecondHalf(op)
    /\ command[1] # 0
    /\ command[4] # 0
    /\ Sent = << SPINOR_OP_AAI_WP >>

\* the bytes a transfer takes from or stores to the command memory lie in
\* command[0..MAX_CMD_SIZE - 1]
InsideCommand(x) ==
    /\ x.tx_buf.base = "command" => x.tx_buf.off + x.len <= MAX_CMD_SIZE
    /\ x.rx_buf.base = "command" => x.rx_buf.off + x.len <= MAX_CMD_SIZE

\* C18: every byte an operation stores to or sends from the command buffer
\* lies at an index in 0..15; for a bulk read 1 + address width + dummy
\* bytes never exceeds MAX_CMD_SIZE.
C18_CommandInBounds ==
    /\ ~oob
    /\ \A k \in 1..Len(xfers) : InsideCommand(xfers[k])
    /\ op.name = "read" => 1 + op.addr_width + DummyBytes <= MAX_CMD_SIZE
    /\ \A i \in Mem : i >= MAX_CMD_SIZE => command[i] = HeapFill

\* C19: for every outcome of the transfer, a failed one that moved 0 bytes
\* included, the *retlen of a bulk read lies in 0..len and the amount a bulk
\* write adds to *retlen lies in 0..len: the unsigned subtraction of the
\* header and dummy sizes never wraps around.
C19_RetlenNeverWraps ==
    /\ op.name = "read" =>
          /\ retlen.top = 0
          /\ retlen.hi = 0
          /\ retlen.lo <= op.len
    /\ (op.name = "write" /\ hist.n = 1) =>
          /\ hist.sum >= 0
          /\ hist.sum <= op.len

====
